---- MODULE Spec2Model ----
(***************************************************************************)
(* A model of the item commands of the todoist command-line client         *)
(* (cmd/todoist/cmd/item.go) and of the wire encoding of todoist.Time.     *)
(*                                                                         *)
(* Text is modelled character by character: a Go string is a TLA+ string,  *)
(* s[i] is SubSeq(s, i+1, i+1), s[i:] is SubSeq(s, i+1, Len(s)).           *)
(***************************************************************************)
EXTENDS Integers, Sequences, FiniteSets, TLC

VARIABLES
    \* ---- one invocation of an item command ----
    loaded,     \* the local store as the command found it
    store,      \* the local store: items, projects, labels, pending commands
    pc,         \* position of the running handler
    cmd,        \* which command is running
    args,       \* positional arguments of the invocation
    flags,      \* flags the user gave on the command line (name -> text)
    stdin,      \* what the user types at the confirmation prompt
    staged,     \* the item / move options the handler has built
    calls,      \* engine calls made by this invocation, with their results
    ret,        \* what RunE returned
    out,        \* lines printed by the handler
    \* ---- todoist.Time on the wire ----
    t,          \* the Time handed to MarshalJSON
    wire,       \* the bytes produced by MarshalJSON or received
    recv0,      \* what the receiver of UnmarshalJSON held beforehand
    recv,       \* the receiver of UnmarshalJSON
    uerr,       \* the error returned by UnmarshalJSON
    tpc         \* "start", "marshalled", "received", "roundtrip", "parsed"

cmdVars == <<loaded, store, pc, cmd, args, flags, stdin, staged, calls, ret, out>>
timeVars == <<t, wire, recv0, recv, uerr, tpc>>
vars == <<loaded, store, pc, cmd, args, flags, stdin, staged, calls, ret, out,
          t, wire, recv0, recv, uerr, tpc>>

(***************************************************************************)
(* Text helpers                                                            *)
(***************************************************************************)

\* s[i-1] of Go, as a one-character string ("" past the end)
Char(s, i) == IF 1 <= i /\ i <= Len(s) THEN SubSeq(s, i, i) ELSE ""

\* s[n:] of Go
Drop(s, n) == SubSeq(s, n + 1, Len(s))

DigitChars == <<"0", "1", "2", "3", "4", "5", "6", "7", "8", "9">>

IsDigitChar(c) == \E i \in 1..10 : DigitChars[i] = c

DigitVal(c) == (CHOOSE i \in 1..10 : DigitChars[i] = c) - 1

\* time.isDigit(s, i), with i counted from 1
isDigit(s, i) == i <= Len(s) /\ IsDigitChar(Char(s, i))

Contains(s, c) == \E i \in 1..Len(s) : Char(s, i) = c

UpperLetters == "ABCDEFGHIJKLMNOPQRSTUVWXYZ"

LowerLetters == "abcdefghijklmnopqrstuvwxyz"

\* c | ('a' - 'A') for an ASCII letter; any other character is left alone
ToLower(c) ==
    IF \E i \in 1..26 : Char(UpperLetters, i) = c
    THEN Char(LowerLetters, CHOOSE i \in 1..26 : Char(UpperLetters, i) = c)
    ELSE c

IsLetter(c) == \E i \in 1..26 : Char(LowerLetters, i) = ToLower(c)

\* time.match: ASCII letters compared without case
match(s1, s2) ==
    /\ Len(s1) = Len(s2)
    /\ \A i \in 1..Len(s1) :
          \/ Char(s1, i) = Char(s2, i)
          \/ /\ ToLower(Char(s1, i)) = ToLower(Char(s2, i))
             /\ IsLetter(Char(s1, i))

RECURSIVE IntStr(_)
\* decimal digits of n >= 0
IntStr(n) == IF n < 10 THEN DigitChars[n + 1]
             ELSE IntStr(n \div 10) \o DigitChars[(n % 10) + 1]

RECURSIVE ZeroPad(_, _)
ZeroPad(s, width) == IF Len(s) >= width THEN s ELSE ZeroPad("0" \o s, width)

\* time.appendInt: decimal, zero-padded to width, '-' in front when negative
appendInt(x, width) ==
    IF x < 0 THEN "-" \o ZeroPad(IntStr(-x), width)
    ELSE ZeroPad(IntStr(x), width)

RECURSIVE Pow10(_)
Pow10(n) == IF n = 0 THEN 1 ELSE 10 * Pow10(n - 1)

\* Go's integer division truncates toward zero
TruncDiv(a, b) == IF a >= 0 THEN a \div b ELSE -((-a) \div b)

(***************************************************************************)
(* The calendar of package time                                            *)
(* A Time is the instant [day, sod, nsec] in UTC (days since 0001-01-01,   *)
(* second of the day, nanosecond) shown at the offset off (seconds east).  *)
(***************************************************************************)

shortDayNames == <<"Sun", "Mon", "Tue", "Wed", "Thu", "Fri", "Sat">>

shortMonthNames == <<"Jan", "Feb", "Mar", "Apr", "May", "Jun",
                     "Jul", "Aug", "Sep", "Oct", "Nov", "Dec">>

daysBefore == <<0, 31, 59, 90, 120, 151, 181, 212, 243, 273, 304, 334, 365>>

isLeap(year) == year % 4 = 0 /\ (year % 100 # 0 \/ year % 400 = 0)

daysIn(month, year) ==
    IF month = 2 /\ isLeap(year) THEN 29
    ELSE daysBefore[month + 1] - daysBefore[month]

\* time.absDate: the civil date of a day number
absDate(d) ==
    LET n400 == d \div 146097
        d1   == d - 146097 * n400
        q100 == d1 \div 36524
        n100 == q100 - (q100 \div 4)
        d2   == d1 - 36524 * n100
        n4   == d2 \div 1461
        d3   == d2 - 1461 * n4
        q1   == d3 \div 365
        n1   == q1 - (q1 \div 4)
        yday == d3 - 365 * n1
        year == 400 * n400 + 100 * n100 + 4 * n4 + n1 + 1
        leap == isLeap(year)
        day  == IF leap /\ yday > 31 + 29 - 1 THEN yday - 1 ELSE yday
        m0   == day \div 31
        end  == daysBefore[m0 + 2]
        mon  == IF day >= end THEN m0 + 2 ELSE m0 + 1
        beg  == IF day >= end THEN end ELSE daysBefore[m0 + 1]
    IN  IF leap /\ yday = 31 + 29 - 1
        THEN [year |-> year, month |-> 2, day |-> 29]
        ELSE [year |-> year, month |-> mon, day |-> day - beg + 1]

\* time.Date: the day number of a civil date
daysSinceEpoch(year, month, day) ==
    LET y    == year - 1
        n400 == y \div 400
        y1   == y - 400 * n400
        n100 == y1 \div 100
        y2   == y1 - 100 * n100
        n4   == y2 \div 4
        y3   == y2 - 4 * n4
    IN  146097 * n400 + 36524 * n100 + 1461 * n4 + 365 * y3
        + daysBefore[month]
        + (IF isLeap(year) /\ month >= 3 THEN 1 ELSE 0)
        + (day - 1)

\* time.Weekday of a day number: 0001-01-01 is a Monday, Sunday is 0
absWeekday(d) == (d + 1) % 7

ZeroTime == [day |-> 0, sod |-> 0, nsec |-> 0, off |-> 0]

\* time.Time.IsZero: the instant is January 1, year 1, 00:00:00 UTC
IsZero(x) == x.day = 0 /\ x.sod = 0 /\ x.nsec = 0

\* Time.Equal: the same instant, whatever the offsets
Equal(x, u) == x.day = u.day /\ x.sod = u.sod /\ x.nsec = u.nsec

\* Format gone wrong: the clock of UTC printed beside the offset
FormatNoOffset(x) ==
    LET loc  == x.sod
        lday == x.day
        lsod == loc
        date == absDate(lday)
        zone == TruncDiv(x.off, 60)
        az   == IF zone < 0 THEN -zone ELSE zone
    IN  shortDayNames[absWeekday(lday) + 1] \o " "
        \o appendInt(date.day, 0) \o " "
        \o shortMonthNames[date.month] \o " "
        \o appendInt(date.year, 4) \o " "
        \o appendInt(lsod \div 3600, 2) \o ":"
        \o appendInt((lsod % 3600) \div 60, 2) \o ":"
        \o appendInt(lsod % 60, 2) \o " "
        \o (IF zone < 0 THEN "-" ELSE "+")
        \o appendInt(az \div 60, 2) \o appendInt(az % 60, 2)

\* time.Time.Format(layout) for layout "Mon 2 Jan 2006 15:04:05 -0700"
Format(x) ==
    LET loc  == x.sod + x.off
        lday == x.day + (loc \div 86400)
        lsod == loc % 86400
        date == absDate(lday)
        zone == TruncDiv(x.off, 60)
        az   == IF zone < 0 THEN -zone ELSE zone
    IN  shortDayNames[absWeekday(lday) + 1] \o " "
        \o appendInt(date.day, 0) \o " "
        \o shortMonthNames[date.month] \o " "
        \o appendInt(date.year, 4) \o " "
        \o appendInt(lsod \div 3600, 2) \o ":"
        \o appendInt((lsod % 3600) \div 60, 2) \o ":"
        \o appendInt(lsod % 60, 2) \o " "
        \o (IF zone < 0 THEN "-" ELSE "+")
        \o appendInt(az \div 60, 2) \o appendInt(az % 60, 2)

(***************************************************************************)
(* time.Parse(layout, value), one layout element at a time.  The parse     *)
(* state r carries what is left of value and the fields read so far.       *)
(***************************************************************************)

ParseStart(value) ==
    [ok |-> TRUE, rest |-> value, day |-> 0, month |-> 0, year |-> 0,
     hour |-> 0, min |-> 0, sec |-> 0, nsec |-> 0, zone |-> 0]

Bad(r) == [r EXCEPT !.ok = FALSE]

RECURSIVE cutspace(_)
cutspace(s) == IF Len(s) > 0 /\ Head(s) = " " THEN cutspace(Tail(s)) ELSE s

\* time.skip for the layout prefix " "
skipSpace(r) ==
    IF ~r.ok THEN r
    ELSE IF Len(r.rest) > 0 /\ Head(r.rest) # " " THEN Bad(r)
    ELSE [r EXCEPT !.rest = cutspace(r.rest)]

\* time.skip for a one-character literal prefix
skipChar(r, c) ==
    IF ~r.ok THEN r
    ELSE IF Len(r.rest) = 0 \/ Head(r.rest) # c THEN Bad(r)
    ELSE [r EXCEPT !.rest = Tail(r.rest)]

\* time.lookup: index of the first name of tab that val starts with
lookup(tab, val) ==
    LET hits == {i \in 1..Len(tab) :
                    /\ Len(val) >= Len(tab[i])
                    /\ match(SubSeq(val, 1, Len(tab[i])), tab[i])}
    IN  IF hits = {} THEN [ok |-> FALSE, idx |-> 0, rest |-> val]
        ELSE LET i == CHOOSE j \in hits : \A k \in hits : j <= k
             IN  [ok |-> TRUE, idx |-> i, rest |-> Drop(val, Len(tab[i]))]

\* time.getnum: one or two digits, exactly two when fixed
getnum(s, fixed) ==
    IF ~isDigit(s, 1) THEN [ok |-> FALSE, n |-> 0, rest |-> s]
    ELSE IF ~isDigit(s, 2)
         THEN IF fixed THEN [ok |-> FALSE, n |-> 0, rest |-> s]
              ELSE [ok |-> TRUE, n |-> DigitVal(Char(s, 1)), rest |-> Drop(s, 1)]
         ELSE [ok |-> TRUE,
               n |-> DigitVal(Char(s, 1)) * 10 + DigitVal(Char(s, 2)),
               rest |-> Drop(s, 2)]

RECURSIVE DigitsVal(_)
\* the value of a string of digits
DigitsVal(s) == IF Len(s) = 0 THEN 0
                ELSE DigitsVal(SubSeq(s, 1, Len(s) - 1)) * 10 + DigitVal(Char(s, Len(s)))

RECURSIVE DigitRun(_, _)
\* the first position >= n of s that holds no digit
DigitRun(s, n) == IF isDigit(s, n) THEN DigitRun(s, n + 1) ELSE n

\* stdWeekDay "Mon": a weekday name, which is then ignored
parseWeekDay(r) ==
    IF ~r.ok THEN r
    ELSE LET l == lookup(shortDayNames, r.rest)
         IN  IF l.ok THEN [r EXCEPT !.rest = l.rest] ELSE Bad(r)

\* stdDay "2": any one- or two-digit day, validated at the end
parseDay(r) ==
    IF ~r.ok THEN r
    ELSE LET g == getnum(r.rest, FALSE)
         IN  IF g.ok THEN [r EXCEPT !.rest = g.rest, !.day = g.n] ELSE Bad(r)

\* stdMonth "Jan"
parseMonth(r) ==
    IF ~r.ok THEN r
    ELSE LET l == lookup(shortMonthNames, r.rest)
         IN  IF l.ok THEN [r EXCEPT !.rest = l.rest, !.month = l.idx] ELSE Bad(r)

\* stdLongYear "2006": exactly four digits
parseLongYear(r) ==
    IF ~r.ok THEN r
    ELSE IF Len(r.rest) < 4 \/ ~isDigit(r.rest, 1) THEN Bad(r)
    ELSE IF \A i \in 1..4 : isDigit(r.rest, i)
         THEN [r EXCEPT !.rest = Drop(r.rest, 4),
                        !.year = DigitsVal(SubSeq(r.rest, 1, 4))]
         ELSE Bad(r)

\* stdHour "15"
parseHour(r) ==
    IF ~r.ok THEN r
    ELSE LET g == getnum(r.rest, FALSE)
         IN  IF g.ok /\ g.n < 24 THEN [r EXCEPT !.rest = g.rest, !.hour = g.n]
             ELSE Bad(r)

\* stdZeroMinute "04"
parseZeroMinute(r) ==
    IF ~r.ok THEN r
    ELSE LET g == getnum(r.rest, TRUE)
         IN  IF g.ok /\ g.n < 60 THEN [r EXCEPT !.rest = g.rest, !.min = g.n]
             ELSE Bad(r)

\* stdZeroSecond "05", and the fractional second Parse accepts after it
\* although the layout names none
parseZeroSecond(r) ==
    IF ~r.ok THEN r
    ELSE LET g == getnum(r.rest, TRUE)
         IN  IF ~(g.ok /\ g.n < 60) THEN Bad(r)
             ELSE IF /\ Len(g.rest) >= 2
                     /\ Char(g.rest, 1) \in {".", ","}
                     /\ isDigit(g.rest, 2)
                  THEN LET e == DigitRun(g.rest, 3)        \* value[n:] starts at e
                           k == IF e - 1 > 10 THEN 10 ELSE e - 1
                           ns == DigitsVal(SubSeq(g.rest, 2, k))
                       IN  [r EXCEPT !.rest = Drop(g.rest, e - 1), !.sec = g.n,
                                     !.nsec = ns * Pow10(10 - k)]
                  ELSE [r EXCEPT !.rest = g.rest, !.sec = g.n]

\* stdNumTZ "-0700"
parseNumTZ(r) ==
    IF ~r.ok THEN r
    ELSE IF Len(r.rest) < 5 THEN Bad(r)
    ELSE LET sign == Char(r.rest, 1)
             hr   == getnum(SubSeq(r.rest, 2, 3), TRUE)
             mm   == getnum(SubSeq(r.rest, 4, 5), TRUE)
         IN  IF ~hr.ok \/ ~mm.ok \/ sign \notin {"+", "-"} THEN Bad(r)
             ELSE IF hr.n > 24 \/ mm.n > 60 THEN Bad(r)
             ELSE [r EXCEPT !.rest = Drop(r.rest, 5),
                            !.zone = IF sign = "-" THEN -((hr.n * 60 + mm.n) * 60)
                                     ELSE (hr.n * 60 + mm.n) * 60]

\* the layout exhausted: no text may be left, and the day must exist
parseEnd(r) ==
    IF ~r.ok THEN r
    ELSE IF Len(r.rest) # 0 THEN Bad(r)
    ELSE IF r.day < 1 \/ r.day > daysIn(r.month, r.year) THEN Bad(r)
    ELSE r

parseFields(value) ==
    parseEnd(
     parseNumTZ(skipSpace(
      parseZeroSecond(skipChar(
       parseZeroMinute(skipChar(
        parseHour(skipSpace(
         parseLongYear(skipSpace(
          parseMonth(skipSpace(
           parseDay(skipSpace(
            parseWeekDay(ParseStart(value)))))))))), ":")), ":")))))

\* Date(year, month, day, hour, min, sec, nsec, UTC) moved back by the zone
\* offset, and shown at that offset
timeOf(r) ==
    LET s == r.hour * 3600 + r.min * 60 + r.sec - r.zone
    IN  [day  |-> daysSinceEpoch(r.year, r.month, r.day) + (s \div 86400),
         sod  |-> s % 86400,
         nsec |-> r.nsec,
         off  |-> r.zone]

\* todoist.Parse: (Time{}, err) on failure, (Time{t}, nil) on success
Parse(value) ==
    LET r == parseFields(value)
    IN  IF r.ok THEN [t |-> timeOf(r), err |-> "nil"]
        ELSE [t |-> ZeroTime, err |-> "ParseError"]

(***************************************************************************)
(* strconv.Quote and strconv.Unquote, for text without backslash, newline, *)
(* carriage return or back quote (every text of this model): the escape    *)
(* and raw-string branches of Unquote are never entered.                   *)
(***************************************************************************)

DQ == "\""

\* strconv.Quote of printable ASCII holding no quote
Quote(s) == DQ \o s \o DQ

Unquote(s) ==
    LET n     == Len(s)
        quote == Char(s, 1)
        in    == SubSeq(s, 2, n - 1)
        bad   == [s |-> "", err |-> "ErrSyntax"]
    IN  IF n < 2 THEN bad
        ELSE IF quote # Char(s, n) THEN bad
        ELSE IF quote # DQ /\ quote # "'" THEN bad
        ELSE IF Contains(in, quote) THEN bad
        ELSE IF quote = "'" /\ Len(in) # 1 THEN bad
        ELSE [s |-> in, err |-> "nil"]

(***************************************************************************)
(* todoist.Time                                                            *)
(***************************************************************************)

\* Time.MarshalJSON (its error is always nil)
MarshalJSON(x) == IF IsZero(x) THEN "null" ELSE Quote(Format(x))

\* UnmarshalJSON gone wrong: the receiver left alone when Unquote fails
UnmarshalJSONKeepsReceiver(old, b) ==
    LET u == Unquote(b)
    IN  IF u.err # "nil" THEN [t |-> old, err |-> "nil"]
        ELSE Parse(u.s)

\* Time.UnmarshalJSON on a receiver holding old: the receiver afterwards,
\* and the error returned
UnmarshalJSON(old, b) ==
    LET u == Unquote(b)
    IN  IF u.err # "nil" THEN [t |-> ZeroTime, err |-> "nil"]
        ELSE Parse(u.s)

(***************************************************************************)
(* Times and bytes the wire model is run on                                *)
(***************************************************************************)

\* 0001-01-01, 0001-12-31, 1900-02-28, 2000-02-29, 2023-12-31, 2024-02-29,
\* 9999-12-31, and 31 December of the year -1
SampleDays == {0, 364, 693653, 730178, 738884, 738944, 3652058, -367}

\* 00:00:00, 00:00:01, 01:01:01, 23:59:59
SampleSeconds == {0, 1, 3661, 86399}

SampleNanos == {0, 1, 999999999}

\* UTC, -07:00, +05:30, +14:00, -12:00, offsets that are not whole minutes,
\* and +25:00, which no zone has
SampleOffsets == {0, -25200, 19800, 50400, -43200, 1, -61, 90000}

SampleTimes ==
    [day : SampleDays, sod : SampleSeconds, nsec : SampleNanos, off : SampleOffsets]

\* what the receiver of UnmarshalJSON may hold beforehand
SampleReceivers ==
    {ZeroTime, [day |-> 738944, sod |-> 3661, nsec |-> 1, off |-> 19800]}

\* bytes a decoder may be handed for a Time field: JSON tokens that are no
\* string, strings that are no date, and damaged copies of the canonical text f
WireInputs(f) ==
    {"null", "1", "true", "{}", "", DQ, Quote(""), Quote("tomorrow"), "'x'",
     f,                                         \* the quotes left out
     DQ \o f,                                   \* the closing quote missing
     Quote(f),                                  \* canonical
     Quote(f \o " "),                           \* text after the offset
     Quote(f \o "Z"),
     Quote(SubSeq(f, 1, Len(f) - 1)),           \* offset cut short
     Quote(SubSeq(f, 1, Len(f) - 6)),           \* no offset
     Quote(Drop(f, 4)),                         \* no weekday
     Quote("Xyz" \o Drop(f, 3)),                \* no such weekday
     Quote("mon" \o Drop(f, 3)),                \* weekday in lower case
     Quote(SubSeq(f, 1, Len(f) - 6) \o ".5" \o Drop(f, Len(f) - 6)),
     Quote("Mon 30 Feb 2024 10:00:00 +0000"),   \* no such day
     Quote("Mon 02 Jan 2006 15:04:05 -0700"),   \* day padded
     Quote("Mon 2 Jan 2006 24:00:00 +0000"),    \* no such hour
     Quote("Mon 2 Jan 2006 15:04:05 0700"),     \* offset without sign
     Quote("2006-01-02T15:04:05Z")}             \* another layout

(***************************************************************************)
(* The wire model: a Time is serialized and parsed back, or bytes arrive   *)
(* and are parsed                                                          *)
(***************************************************************************)

CmdIdle ==
    /\ store = [items |-> {}, projects |-> {}, labels |-> {}, queue |-> <<>>]
    /\ loaded = store
    /\ pc = "idle" /\ cmd = "none"
    /\ args = <<>> /\ flags = <<>> /\ stdin = "" /\ staged = <<>>
    /\ calls = <<>> /\ ret = "none" /\ out = <<>>

TimeInit ==
    /\ t \in SampleTimes \cup {ZeroTime}
    /\ recv0 \in SampleReceivers
    /\ recv = recv0
    /\ wire = ""
    /\ uerr = "none"
    /\ tpc = "start"
    /\ CmdIdle

\* json.Marshal reaches Time.MarshalJSON
Marshal ==
    /\ tpc = "start"
    /\ wire' = MarshalJSON(t)
    /\ tpc' = "marshalled"
    /\ UNCHANGED <<t, recv0, recv, uerr>>
    /\ UNCHANGED cmdVars

\* bytes arrive from elsewhere
Receive ==
    /\ tpc = "start"
    /\ wire' \in WireInputs(Format(t))
    /\ tpc' = "received"
    /\ UNCHANGED <<t, recv0, recv, uerr>>
    /\ UNCHANGED cmdVars

\* json.Unmarshal reaches Time.UnmarshalJSON
Unmarshal ==
    /\ tpc \in {"marshalled", "received"}
    /\ LET r == UnmarshalJSON(recv, wire)
       IN  recv' = r.t /\ uerr' = r.err
    /\ tpc' = IF tpc = "marshalled" THEN "roundtrip" ELSE "parsed"
    /\ UNCHANGED <<t, wire, recv0>>
    /\ UNCHANGED cmdVars

TimeNext ==
    \/ Marshal
    \/ Receive
    \/ Unmarshal

TimeSpec == TimeInit /\ [][TimeNext]_vars

(***************************************************************************)
(* Claims about todoist.Time                                               *)
(***************************************************************************)

\* the year t shows at its own offset
LocalYear(x) == absDate(x.day + ((x.sod + x.off) \div 86400)).year

\* whole minutes, and no more than a day
OrdinaryOffset(x) == x.off % 60 = 0 /\ x.off \in (-86400)..86400

\* C2 as stated, for times of the years 1900 to 9999 at an ordinary offset:
\* serializing a non-zero Time and parsing the result back succeeds and
\* yields the same instant, whatever its sub-second part.
C2_RoundTripAnyTime ==
    (/\ tpc = "roundtrip"
     /\ ~IsZero(t)
     /\ OrdinaryOffset(t)
     /\ LocalYear(t) \in 1900..9999)
    => (uerr = "nil" /\ Equal(t, recv))

\* C2 amended: serializing a non-zero Time that has no sub-second part, an
\* offset of whole minutes within a day and a year from 0 to 9999 at that
\* offset, and parsing the result back, succeeds and yields the same instant.
C2_RoundTripWholeSeconds ==
    (/\ tpc = "roundtrip"
     /\ ~IsZero(t)
     /\ t.nsec = 0
     /\ OrdinaryOffset(t)
     /\ LocalYear(t) \in 0..9999)
    => (uerr = "nil" /\ Equal(t, recv))

\* a leap day at +05:30, late enough that it shows as 1 March, came back equal
C2_Witness ==
    /\ tpc = "roundtrip"
    /\ t = [day |-> 738944, sod |-> 86399, nsec |-> 0, off |-> 19800]
    /\ wire = Quote("Fri 1 Mar 2024 05:29:59 +0530")
    /\ uerr = "nil"
    /\ Equal(t, recv)
    /\ recv0 # recv

\* C3: a zero Time serializes to exactly the token null, and parsing the
\* token null returns no error and leaves the receiver the zero Time,
\* whatever it held before.
C3_ZeroIsNull ==
    /\ (tpc = "marshalled" /\ IsZero(t)) => wire = "null"
    /\ (tpc \in {"roundtrip", "parsed"} /\ wire = "null")
          => (uerr = "nil" /\ recv = ZeroTime)

\* null was parsed into a receiver that held a non-zero Time
C3_Witness ==
    /\ tpc = "parsed"
    /\ wire = "null"
    /\ ~IsZero(recv0)
    /\ recv = ZeroTime
    /\ uerr = "nil"

\* a quoted string that time.Parse accepts under the layout
MatchesLayout(b) ==
    LET u == Unquote(b)
    IN  u.err = "nil" /\ parseFields(u.s).ok

\* C4: for every input that is neither the token null nor a quoted string
\* matching the layout, UnmarshalJSON returns a non-nil error.
C4_ParseFailureSurfaced ==
    (tpc = "parsed" /\ wire # "null" /\ ~MatchesLayout(wire)) => uerr # "nil"

(***************************************************************************)
(* The engine the item commands call: identifiers, the local store, the    *)
(* command queue, Commit and FullSync                                      *)
(***************************************************************************)

\* the store holds up to this many items when the command starts
MaxItems == 2

\* todoist.NewID: only the canonical permanent syntax, all digits, parses
NewID(s) ==
    IF Len(s) > 0 /\ \A i \in 1..Len(s) : IsDigitChar(Char(s, i))
    THEN [ok |-> TRUE, id |-> s]
    ELSE [ok |-> FALSE, id |-> ""]

\* the identifier Item.Add gives an item until the server confirms it
TempID == "3f2a-temp"

\* the zero todoist.Item
ZeroItem ==
    [id |-> "", content |-> "", project |-> "", parent |-> "", labels |-> <<>>,
     due |-> "", priority |-> 0, dateAdded |-> 0, isDeleted |-> FALSE]

\* client.Item.Resolve: the items with this identifier (none: nil)
Resolve(st, id) == {i \in st.items : i.id = id}

\* client.Item.FindByContent: the items whose content is exactly this
FindByContent(st, content) == {i \in st.items : i.content = content}

\* client.Project.FindOneByName, client.Label.FindOneByName (none: nil)
FindOneByName(entities, name) == {e \in entities : e.name = name}

\* a command of the queue
Command(type, id) == [type |-> type, id |-> id]

\* client.Item.Add: a local write under a temporary identifier, and an
\* "item_add" command
ItemAdd(st, item) ==
    [st EXCEPT !.items = @ \cup {[item EXCEPT !.id = TempID]},
               !.queue = Append(@, Command("item_add", TempID))]

\* client.Item.Update: the stored fields overwritten, and an "item_update"
ItemUpdate(st, item) ==
    [st EXCEPT !.items = {i \in @ : i.id # item.id} \cup {item},
               !.queue = Append(@, Command("item_update", item.id))]

\* client.Item.Move: parent and project changed locally, and an "item_move"
ItemMove(st, id, opts) ==
    [st EXCEPT !.items = {IF i.id = id
                          THEN [i EXCEPT !.parent = opts.ParentID,
                                         !.project = opts.ProjectID]
                          ELSE i : i \in @},
               !.queue = Append(@, Command("item_move", id))]

\* client.Item.Delete: the entry stays until a sync confirms, and an
\* "item_delete"
ItemDelete(st, id) ==
    [st EXCEPT !.items = {IF i.id = id THEN [i EXCEPT !.isDeleted = TRUE] ELSE i
                          : i \in @},
               !.queue = Append(@, Command("item_delete", id))]

\* the permanent identifier the server answers a temporary one with
FreshID(st) == IntStr(100 + Cardinality(st.items))

\* client.Commit that succeeded: the queue is drained and every temporary
\* identifier rewritten to the permanent one
Commit(st) ==
    [st EXCEPT !.items = {IF i.id = TempID THEN [i EXCEPT !.id = FreshID(st)] ELSE i
                          : i \in @},
               !.queue = <<>>]

NewestDate(items) ==
    IF items = {} THEN 0
    ELSE CHOOSE d \in {i.dateAdded : i \in items} : \A i \in items : i.dateAdded <= d

\* client.FullSync that succeeded.  The server's answer is merged: deleted
\* entries go, a new entry gets its date; with a tombstone for the entries
\* in gone, they go as well.
FullSync(st, gone) ==
    LET kept == {i \in st.items : ~i.isDeleted /\ i.id \notin gone}
        old  == {i \in kept : i.dateAdded # 0}
    IN  [st EXCEPT !.items = {IF i.dateAdded = 0
                              THEN [i EXCEPT !.dateAdded = NewestDate(old) + 1]
                              ELSE i : i \in kept}]

\* util.ItemTableString for one item
ItemTableString(item) == "| " \o item.id \o " | " \o item.content \o " |"

\* an engine call as the invocation's log keeps it
Call(op, arg, res) == [op |-> op, arg |-> arg, extra |-> 0, res |-> res]

Found(set) == IF set = {} THEN "absent" ELSE "found"

(***************************************************************************)
(* strings, bufio and the flags of cobra                                   *)
(***************************************************************************)

RECURSIVE Join(_, _)
\* strings.Join
Join(a, sep) ==
    IF Len(a) = 0 THEN ""
    ELSE IF Len(a) = 1 THEN a[1]
    ELSE a[1] \o sep \o Join(Tail(a), sep)

RECURSIVE Split(_, _)
\* strings.Split on a one-character separator
Split(s, sep) ==
    LET hits == {i \in 1..Len(s) : Char(s, i) = sep}
    IN  IF hits = {} THEN <<s>>
        ELSE LET i == CHOOSE j \in hits : \A k \in hits : j <= k
             IN  <<SubSeq(s, 1, i - 1)>> \o Split(Drop(s, i), sep)

\* bufio.Reader.ReadString('\n'): through the first newline; what is left
\* and io.EOF when there is none
ReadString(in) ==
    LET hits == {i \in 1..Len(in) : Char(in, i) = "\n"}
    IN  IF hits = {} THEN [ans |-> in, err |-> "EOF"]
        ELSE LET i == CHOOSE j \in hits : \A k \in hits : j <= k
             IN  [ans |-> SubSeq(in, 1, i), err |-> "nil"]

NotGiven == [set |-> FALSE, val |-> ""]

Given(v) == [set |-> TRUE, val |-> v]

NoFlags ==
    [project |-> NotGiven, parent |-> NotGiven, label |-> NotGiven,
     due |-> NotGiven, priority |-> NotGiven]

\* the default of the priority flag of add and update
DefaultPriority == 1

\* the defaults init() gives the string flags of each command
FlagDefault(c, name) ==
    IF c = "add" /\ name = "project" THEN "inbox" ELSE ""

\* cmd.Flags().GetString(name): a flag init() defines never fails
GetString(fl, c, name) == IF fl[name].set THEN fl[name].val ELSE FlagDefault(c, name)

\* cmd.Flags().GetInt("priority")
GetInt(fl, c, name) == IF fl[name].set THEN DigitsVal(fl[name].val) ELSE DefaultPriority

(***************************************************************************)
(* What a handler does before its first engine call that writes: a record  *)
(* of where it stands afterwards                                           *)
(***************************************************************************)

\* the handler returned e
End(e, cs, o) == [pc |-> "done", ret |-> e, staged |-> <<>>, calls |-> cs, out |-> o]

\* the handler goes on to its local mutation with x built
Go(x, cs, o) == [pc |-> "mutate", ret |-> "none", staged |-> x, calls |-> cs, out |-> o]

RECURSIVE appendLabels(_, _, _)
\* the loop over strings.Split(labelIDorNames, ","): a part that parses is
\* appended as it is, a part that names a label is appended as that label's
\* identifier, any other part is passed over
appendLabels(labels, parts, st) ==
    IF parts = <<>> THEN labels
    ELSE LET lid    == NewID(Head(parts))
             byName == FindOneByName(st.labels, Head(parts))
             next   == IF ~lid.ok
                       THEN IF byName # {}
                            THEN Append(labels, (CHOOSE l \in byName : TRUE).id)
                            ELSE labels
                       ELSE Append(labels, lid.id)
         IN  appendLabels(next, Tail(parts), st)

RECURSIVE labelLookups(_, _)
\* the Label.FindOneByName calls of that loop
labelLookups(parts, st) ==
    IF parts = <<>> THEN <<>>
    ELSE (IF NewID(Head(parts)).ok THEN <<>>
          ELSE <<Call("Label.FindOneByName", Head(parts),
                      Found(FindOneByName(st.labels, Head(parts))))>>)
         \o labelLookups(Tail(parts), st)

\* the label flag of a command, split when it is not empty
labelParts(fl, c) ==
    LET labelIDorNames == GetString(fl, c, "label")
    IN  IF Len(labelIDorNames) > 0 THEN Split(labelIDorNames, ",") ELSE <<>>

\* itemAddCmd gone wrong: a project name that resolves to nothing kept as identifier
itemAddCmd_ItemKeepsUnknownName(a, fl, st) ==
    LET projectIDorName == GetString(fl, "add", "project")
        pid     == NewID(projectIDorName)
        project == FindOneByName(st.projects, projectIDorName)
    IN  [ZeroItem EXCEPT
            !.content = Join(a, " "),
            !.project = IF ~pid.ok
                        THEN IF project # {} THEN (CHOOSE x \in project : TRUE).id
                             ELSE projectIDorName
                        ELSE pid.id,
            !.labels = appendLabels(<<>>, labelParts(fl, "add"), st),
            !.due = GetString(fl, "add", "due"),
            !.priority = GetInt(fl, "add", "priority")]

\* itemAddCmd: the item built from the arguments and the flags
itemAddCmd_Item(a, fl, st) ==
    LET projectIDorName == GetString(fl, "add", "project")
        pid     == NewID(projectIDorName)
        project == FindOneByName(st.projects, projectIDorName)
        due     == GetString(fl, "add", "due")
    IN  [ZeroItem EXCEPT
            !.content = Join(a, " "),
            !.project = IF ~pid.ok
                        THEN IF project # {} THEN (CHOOSE x \in project : TRUE).id
                             ELSE @
                        ELSE pid.id,
            !.labels = appendLabels(@, labelParts(fl, "add"), st),
            !.due = IF Len(due) > 0 THEN due ELSE @,
            !.priority = GetInt(fl, "add", "priority")]

\* itemAddCmd up to the call of Item.Add
itemAddCmd_Prepare(a, fl, clientOK, st) ==
    IF ~clientOK THEN End("ErrNewClient", <<>>, <<>>)
    ELSE LET projectIDorName == GetString(fl, "add", "project")
             byName == IF NewID(projectIDorName).ok THEN <<>>
                       ELSE <<Call("Project.FindOneByName", projectIDorName,
                                   Found(FindOneByName(st.projects, projectIDorName)))>>
         IN  Go(itemAddCmd_Item(a, fl, st),
                byName \o labelLookups(labelParts(fl, "add"), st), <<>>)

\* itemUpdateCmd gone wrong: the priority left alone when the flag is not given
itemUpdateCmd_ItemKeepsPriority(a, fl, item, st) ==
    LET due == GetString(fl, "update", "due")
    IN  [item EXCEPT
            !.content = IF Len(a) > 1 THEN Join(Tail(a), " ") ELSE @,
            !.labels = appendLabels(@, labelParts(fl, "update"), st),
            !.due = IF Len(due) > 0 THEN due ELSE @,
            !.priority = IF fl.priority.set THEN GetInt(fl, "update", "priority") ELSE @]

\* itemUpdateCmd: the resolved item with the new content, labels, due string
\* and priority
itemUpdateCmd_Item(a, fl, item, st) ==
    LET due == GetString(fl, "update", "due")
    IN  [item EXCEPT
            !.content = IF Len(a) > 1 THEN Join(Tail(a), " ") ELSE @,
            !.labels = appendLabels(@, labelParts(fl, "update"), st),
            !.due = IF Len(due) > 0 THEN due ELSE @,
            !.priority = GetInt(fl, "update", "priority")]

\* itemUpdateCmd up to the call of Item.Update
itemUpdateCmd_Prepare(a, fl, clientOK, st) ==
    IF Len(a) < 1 THEN End("require item id to update", <<>>, <<>>)
    ELSE LET id == NewID(a[1])
         IN  IF ~id.ok THEN End("invalid id: " \o a[1], <<>>, <<>>)
             ELSE IF ~clientOK THEN End("ErrNewClient", <<>>, <<>>)
             ELSE LET item == Resolve(st, id.id)
                      c1   == <<Call("Item.Resolve", id.id, Found(item))>>
                  IN  IF item = {} THEN End("no such item id: " \o id.id, c1, <<>>)
                      ELSE Go(itemUpdateCmd_Item(a, fl, CHOOSE i \in item : TRUE, st),
                              c1 \o labelLookups(labelParts(fl, "update"), st), <<>>)

\* itemMoveCmd gone wrong: a flag left empty is passed over
itemMoveCmd_OptsSkipsEmpty(fl) ==
    LET parentID  == GetString(fl, "move", "parent")
        projectID == GetString(fl, "move", "project")
        pa == NewID(parentID)
        pr == NewID(projectID)
    IN  IF Len(parentID) > 0 /\ ~pa.ok
        THEN [err |-> "invalid parent id: " \o parentID, ParentID |-> "", ProjectID |-> ""]
        ELSE IF Len(projectID) > 0 /\ ~pr.ok
        THEN [err |-> "invalid project id: " \o projectID, ParentID |-> pa.id, ProjectID |-> ""]
        ELSE [err |-> "nil", ParentID |-> pa.id, ProjectID |-> pr.id]

\* itemMoveCmd: the ItemMoveOpts built from the parent and project flags
itemMoveCmd_Opts(fl) ==
    LET parentID  == GetString(fl, "move", "parent")
        projectID == GetString(fl, "move", "project")
        pa == NewID(parentID)
        pr == NewID(projectID)
    IN  IF ~pa.ok
        THEN [err |-> "invalid parent id: " \o parentID, ParentID |-> "", ProjectID |-> ""]
        ELSE IF ~pr.ok
        THEN [err |-> "invalid project id: " \o projectID, ParentID |-> pa.id, ProjectID |-> ""]
        ELSE [err |-> "nil", ParentID |-> pa.id, ProjectID |-> pr.id]

\* itemMoveCmd gone wrong: the nil check of the resolved item left out
itemMoveCmd_PrepareUnresolved(a, fl, clientOK, st) ==
    IF ~clientOK THEN End("ErrNewClient", <<>>, <<>>)
    ELSE IF Len(a) < 1 THEN End("Require item ID to move", <<>>, <<>>)
    ELSE LET id == NewID(a[1])
         IN  IF ~id.ok THEN End("Invalid ID: " \o a[1], <<>>, <<>>)
             ELSE LET c1   == <<Call("Item.Resolve", id.id, Found(Resolve(st, id.id)))>>
                      opts == itemMoveCmd_Opts(fl)
                  IN  IF opts.err # "nil" THEN End(opts.err, c1, <<>>)
                      ELSE Go(opts, c1, <<>>)

\* itemMoveCmd up to the call of Item.Move
itemMoveCmd_Prepare(a, fl, clientOK, st) ==
    IF ~clientOK THEN End("ErrNewClient", <<>>, <<>>)
    ELSE IF Len(a) < 1 THEN End("Require item ID to move", <<>>, <<>>)
    ELSE LET id == NewID(a[1])
         IN  IF ~id.ok THEN End("Invalid ID: " \o a[1], <<>>, <<>>)
             ELSE LET item == Resolve(st, id.id)
                      c1   == <<Call("Item.Resolve", id.id, Found(item))>>
                      opts == itemMoveCmd_Opts(fl)
                  IN  IF item = {} THEN End("No such item id: " \o id.id, c1, <<>>)
                      ELSE IF opts.err # "nil" THEN End(opts.err, c1, <<>>)
                      ELSE Go(opts, c1, <<>>)

\* itemDeleteCmd gone wrong: the abort taken only when answer and read both fail
itemDeleteCmd_ConfirmedOnEOF(in) ==
    LET r == ReadString(in)
    IN  ~(r.ans # "y\n" /\ r.err # "nil")

\* itemDeleteCmd: whether the answer read lets the deletion go on
itemDeleteCmd_Confirmed(in) ==
    LET r == ReadString(in)
    IN  ~(r.ans # "y\n" \/ r.err # "nil")

\* itemDeleteCmd: what RunE returns for the error AutoCommit handed back
itemDeleteCmd_Return(err) == IF err = "abort" THEN "nil" ELSE err

\* itemDeleteCmd: the callback up to the call of Item.Delete
itemDeleteCmd_Callback(a, in, st) ==
    IF Len(a) # 1 THEN End("require one item id", <<>>, <<>>)
    ELSE LET id == NewID(a[1])
         IN  IF ~id.ok THEN End("ErrInvalidID", <<>>, <<>>)
             ELSE LET item == Resolve(st, id.id)
                      c1   == <<Call("Item.Resolve", id.id, Found(item))>>
                      o1   == <<ItemTableString(CHOOSE i \in item : TRUE),
                                "are you sure to delete above item(s)? (y/[n]): ">>
                  IN  IF item = {} THEN End("invalid id: " \o id.id, c1, <<>>)
                      ELSE IF ~itemDeleteCmd_Confirmed(in)
                           THEN End("abort", c1, o1 \o <<"abort">>)
                           ELSE Go(id.id, c1, o1)

\* util.AutoCommit up to the end of the callback's checks, and RunE's
\* handling of the error it hands back
itemDeleteCmd_Prepare(a, clientOK, in, st) ==
    LET r == IF ~clientOK THEN End("ErrNewClient", <<>>, <<>>)
             ELSE itemDeleteCmd_Callback(a, in, st)
    IN  IF r.pc = "done" THEN [r EXCEPT !.ret = itemDeleteCmd_Return(@)] ELSE r

(***************************************************************************)
(* What the user may type, and the stores a command may find               *)
(***************************************************************************)

AddArgs == {<<>>, <<"buy", "milk">>, <<"call", "mom">>}

AddFlags ==
    {[NoFlags EXCEPT !.project = p, !.label = l, !.due = d, !.priority = n] :
        p \in {NotGiven, Given("8"), Given("work"), Given("nowhere")},
        l \in {NotGiven, Given("5"), Given("home"), Given("errand,nolabel,6"),
               Given("home,,x")},
        d \in {NotGiven, Given("tomorrow")},
        n \in {NotGiven, Given("4")}}

UpdateArgs == {<<>>, <<"1">>, <<"x1">>, <<"9">>, <<"2">>, <<"1", "call", "mom">>}

UpdateFlags ==
    {[NoFlags EXCEPT !.label = l, !.due = d, !.priority = n] :
        l \in {NotGiven, Given("6"), Given("errand,nolabel"), Given(",home")},
        d \in {NotGiven, Given("tomorrow")},
        n \in {NotGiven, Given("4")}}

MoveArgs == {<<>>, <<"1">>, <<"x1">>, <<"9">>, <<"2", "1">>}

MoveFlags ==
    {[NoFlags EXCEPT !.parent = i, !.project = p] :
        i \in {NotGiven, Given("2"), Given("milk"), Given("")},
        p \in {NotGiven, Given("8"), Given("work")}}

DeleteArgs == {<<>>, <<"1">>, <<"x1">>, <<"9">>, <<"1", "2">>}

Answers == {"y\n", "n\n", "\n", "y", "", "Y\n", "yes\n", " y\n", "y\nn\n", "n\ny\n"}

\* item k of a synced store
SampleItem(k) ==
    [id |-> IntStr(k),
     content |-> IF k = 1 THEN "buy milk" ELSE "task " \o IntStr(k),
     project |-> IF k % 2 = 1 THEN "7" ELSE "8",
     parent |-> IF k = 2 THEN "1" ELSE "",
     labels |-> IF k % 2 = 1 THEN <<"5">> ELSE <<>>,
     due |-> IF k = 1 THEN "today" ELSE "",
     priority |-> (k % 4) + 2,
     dateAdded |-> k,
     isDeleted |-> FALSE]

\* a store never synced, and synced stores of 0 to MaxItems items
SampleStores ==
    {[items |-> {}, projects |-> {}, labels |-> {}, queue |-> <<>>]}
    \cup {[items |-> {SampleItem(k) : k \in 1..n},
           projects |-> {[id |-> "7", name |-> "inbox"], [id |-> "8", name |-> "work"]},
           labels |-> {[id |-> "5", name |-> "home"], [id |-> "6", name |-> "errand"]},
           queue |-> <<>>] : n \in 0..MaxItems}

TimeIdle ==
    /\ t = ZeroTime /\ wire = "" /\ recv0 = ZeroTime /\ recv = ZeroTime
    /\ uerr = "none" /\ tpc = "start"

(***************************************************************************)
(* The handlers, one action for each stretch between two engine calls      *)
(***************************************************************************)

Init ==
    /\ store \in SampleStores
    /\ loaded = store
    /\ pc = "idle" /\ cmd = "none"
    /\ args = <<>> /\ flags = NoFlags /\ stdin = "" /\ staged = <<>>
    /\ calls = <<>> /\ ret = "none" /\ out = <<>>
    /\ TimeIdle

\* FullSync(ctx, cmds) as the log keeps it
SyncCall(cmds, err) == [op |-> "FullSync", arg |-> "", extra |-> Len(cmds), res |-> err]

\* the entities this invocation wrote, which the server may answer are gone
Target ==
    IF cmd = "add" THEN {i.id : i \in {j \in store.items : j.dateAdded = 0}}
    ELSE {args[1]}

\* sort.Slice by DateAdded and the last element: an item none is newer than
\* (the sort is not stable, so any of them)
Newest(items) == {i \in items : \A j \in items : ~(i.dateAdded < j.dateAdded)}

\* itemAddCmd is run: everything before its first writing engine call
itemAddCmd_Begin ==
    /\ pc = "idle"
    /\ \E a \in AddArgs, fl \in AddFlags, clientOK \in BOOLEAN :
          LET r == itemAddCmd_Prepare(a, fl, clientOK, store)
          IN  /\ cmd' = "add" /\ args' = a /\ flags' = fl
              /\ pc' = r.pc /\ ret' = r.ret /\ staged' = r.staged
              /\ calls' = r.calls /\ out' = r.out
    /\ UNCHANGED <<store, stdin>>
    /\ UNCHANGED <<loaded, timeVars>>

\* itemAddCmd: client.Item.Add, and the return when it fails
itemAddCmd_ItemAdd ==
    /\ pc = "mutate" /\ cmd = "add"
    /\ \E err \in {"nil", "ErrItemAdd"} :
          /\ calls' = Append(calls, Call("Item.Add", staged.content, err))
          /\ IF err # "nil"
             THEN ret' = err /\ pc' = "done" /\ UNCHANGED store
             ELSE store' = ItemAdd(store, staged) /\ pc' = "commit" /\ UNCHANGED ret
    /\ UNCHANGED <<cmd, args, flags, stdin, staged, out>>
    /\ UNCHANGED <<loaded, timeVars>>

\* itemAddCmd: client.Commit, and the return when it fails
itemAddCmd_Commit ==
    /\ pc = "commit" /\ cmd = "add"
    /\ \E err \in {"nil", "ErrCommit"} :
          /\ calls' = Append(calls, Call("Commit", "", err))
          /\ IF err # "nil"
             THEN ret' = err /\ pc' = "done" /\ UNCHANGED store
             ELSE store' = Commit(store) /\ pc' = "sync" /\ UNCHANGED ret
    /\ UNCHANGED <<cmd, args, flags, stdin, staged, out>>
    /\ UNCHANGED <<loaded, timeVars>>

\* itemAddCmd: client.FullSync with no extra command, and the return when it
\* fails.  What the server answers is not the handler's to choose: the
\* entity of this invocation may be gone from it.
itemAddCmd_FullSync ==
    /\ pc = "sync" /\ cmd = "add"
    /\ \E err \in {"nil", "ErrFullSync"}, gone \in {{}, Target} :
          /\ calls' = Append(calls, SyncCall(<<>>, err))
          /\ IF err # "nil"
             THEN ret' = err /\ pc' = "done" /\ UNCHANGED store
             ELSE store' = FullSync(store, gone) /\ pc' = "lookup" /\ UNCHANGED ret
    /\ UNCHANGED <<cmd, args, flags, stdin, staged, out>>
    /\ UNCHANGED <<loaded, timeVars>>

\* itemAddCmd: the added item retrieved by its content, and the report
itemAddCmd_Retrieve ==
    /\ pc = "lookup" /\ cmd = "add"
    /\ LET content == Join(args, " ")
           items   == FindByContent(store, content)
       IN  /\ calls' = Append(calls, Call("Item.FindByContent", content, Found(items)))
           /\ IF items = {}
              THEN ret' = "Failed to add this item. It may be failed to sync."
                   /\ UNCHANGED out
              ELSE /\ \E syncedItem \in Newest(items) :
                         out' = out \o <<"Successful addition of an item.",
                                         ItemTableString(syncedItem)>>
                   /\ ret' = "nil"
    /\ pc' = "done"
    /\ UNCHANGED <<store, cmd, args, flags, stdin, staged>>
    /\ UNCHANGED <<loaded, timeVars>>

\* itemUpdateCmd is run: everything before its first writing engine call
itemUpdateCmd_Begin ==
    /\ pc = "idle"
    /\ \E a \in UpdateArgs, fl \in UpdateFlags, clientOK \in BOOLEAN :
          LET r == itemUpdateCmd_Prepare(a, fl, clientOK, store)
          IN  /\ cmd' = "update" /\ args' = a /\ flags' = fl
              /\ pc' = r.pc /\ ret' = r.ret /\ staged' = r.staged
              /\ calls' = r.calls /\ out' = r.out
    /\ UNCHANGED <<store, stdin>>
    /\ UNCHANGED <<loaded, timeVars>>

\* itemUpdateCmd: client.Item.Update, and the return when it fails
itemUpdateCmd_ItemUpdate ==
    /\ pc = "mutate" /\ cmd = "update"
    /\ \E err \in {"nil", "ErrItemUpdate"} :
          /\ calls' = Append(calls, Call("Item.Update", staged.id, err))
          /\ IF err # "nil"
             THEN ret' = err /\ pc' = "done" /\ UNCHANGED store
             ELSE store' = ItemUpdate(store, staged) /\ pc' = "commit" /\ UNCHANGED ret
    /\ UNCHANGED <<cmd, args, flags, stdin, staged, out>>
    /\ UNCHANGED <<loaded, timeVars>>

\* itemUpdateCmd: client.Commit, and the return when it fails
itemUpdateCmd_Commit ==
    /\ pc = "commit" /\ cmd = "update"
    /\ \E err \in {"nil", "ErrCommit"} :
          /\ calls' = Append(calls, Call("Commit", "", err))
          /\ IF err # "nil"
             THEN ret' = err /\ pc' = "done" /\ UNCHANGED store
             ELSE store' = Commit(store) /\ pc' = "sync" /\ UNCHANGED ret
    /\ UNCHANGED <<cmd, args, flags, stdin, staged, out>>
    /\ UNCHANGED <<loaded, timeVars>>

\* itemUpdateCmd: client.FullSync with no extra command, and the return when it
\* fails.  What the server answers is not the handler's to choose: the
\* entity of this invocation may be gone from it.
itemUpdateCmd_FullSync ==
    /\ pc = "sync" /\ cmd = "update"
    /\ \E err \in {"nil", "ErrFullSync"}, gone \in {{}, Target} :
          /\ calls' = Append(calls, SyncCall(<<>>, err))
          /\ IF err # "nil"
             THEN ret' = err /\ pc' = "done" /\ UNCHANGED store
             ELSE store' = FullSync(store, gone) /\ pc' = "lookup" /\ UNCHANGED ret
    /\ UNCHANGED <<cmd, args, flags, stdin, staged, out>>
    /\ UNCHANGED <<loaded, timeVars>>

\* itemUpdateCmd gone wrong: success reported without the nil check
itemUpdateCmd_ResolveUnchecked ==
    /\ pc = "lookup" /\ cmd = "update"
    /\ LET syncedItem == Resolve(store, NewID(args[1]).id)
       IN  /\ calls' = Append(calls, Call("Item.Resolve", NewID(args[1]).id, Found(syncedItem)))
           /\ IF FALSE
              THEN ret' = "failed to add this item. it may be failed to sync" /\ UNCHANGED out
              ELSE /\ out' = out \o <<"success to update the item", "| " \o args[1] \o " |">>
                   /\ ret' = "nil"
    /\ pc' = "done"
    /\ UNCHANGED <<store, cmd, args, flags, stdin, staged>>
    /\ UNCHANGED <<loaded, timeVars>>

\* itemUpdateCmd: the item resolved again after the sync, and the report
itemUpdateCmd_Resolve ==
    /\ pc = "lookup" /\ cmd = "update"
    /\ LET syncedItem == Resolve(store, NewID(args[1]).id)
       IN  /\ calls' = Append(calls, Call("Item.Resolve", NewID(args[1]).id, Found(syncedItem)))
           /\ IF syncedItem = {}
              THEN ret' = "failed to add this item. it may be failed to sync" /\ UNCHANGED out
              ELSE /\ out' = out \o <<"success to update the item", ItemTableString(CHOOSE i \in syncedItem : TRUE)>>
                   /\ ret' = "nil"
    /\ pc' = "done"
    /\ UNCHANGED <<store, cmd, args, flags, stdin, staged>>
    /\ UNCHANGED <<loaded, timeVars>>

\* itemMoveCmd is run: everything before its first writing engine call
itemMoveCmd_Begin ==
    /\ pc = "idle"
    /\ \E a \in MoveArgs, fl \in MoveFlags, clientOK \in BOOLEAN :
          LET r == itemMoveCmd_Prepare(a, fl, clientOK, store)
          IN  /\ cmd' = "move" /\ args' = a /\ flags' = fl
              /\ pc' = r.pc /\ ret' = r.ret /\ staged' = r.staged
              /\ calls' = r.calls /\ out' = r.out
    /\ UNCHANGED <<store, stdin>>
    /\ UNCHANGED <<loaded, timeVars>>

\* itemMoveCmd: client.Item.Move, and the return when it fails
itemMoveCmd_ItemMove ==
    /\ pc = "mutate" /\ cmd = "move"
    /\ \E err \in {"nil", "ErrItemMove"} :
          /\ calls' = Append(calls, Call("Item.Move", NewID(args[1]).id, err))
          /\ IF err # "nil"
             THEN ret' = err /\ pc' = "done" /\ UNCHANGED store
             ELSE store' = ItemMove(store, NewID(args[1]).id, staged) /\ pc' = "commit" /\ UNCHANGED ret
    /\ UNCHANGED <<cmd, args, flags, stdin, staged, out>>
    /\ UNCHANGED <<loaded, timeVars>>

\* itemMoveCmd: client.Commit, and the return when it fails
\* itemMoveCmd gone wrong: the error of Commit dropped
itemMoveCmd_CommitUnchecked ==
    /\ pc = "commit" /\ cmd = "move"
    /\ \E err \in {"nil", "ErrCommit"} :
          /\ calls' = Append(calls, Call("Commit", "", err))
          /\ store' = (IF err # "nil" THEN store ELSE Commit(store))
          /\ pc' = "sync" /\ UNCHANGED ret
    /\ UNCHANGED <<cmd, args, flags, stdin, staged, out>>
    /\ UNCHANGED <<loaded, timeVars>>

\* itemMoveCmd: client.Commit, and the return when it fails
itemMoveCmd_Commit ==
    /\ pc = "commit" /\ cmd = "move"
    /\ \E err \in {"nil", "ErrCommit"} :
          /\ calls' = Append(calls, Call("Commit", "", err))
          /\ IF err # "nil"
             THEN ret' = err /\ pc' = "done" /\ UNCHANGED store
             ELSE store' = Commit(store) /\ pc' = "sync" /\ UNCHANGED ret
    /\ UNCHANGED <<cmd, args, flags, stdin, staged, out>>
    /\ UNCHANGED <<loaded, timeVars>>

\* itemMoveCmd: client.FullSync with no extra command, and the return when it
\* fails.  What the server answers is not the handler's to choose: the
\* entity of this invocation may be gone from it.
itemMoveCmd_FullSync ==
    /\ pc = "sync" /\ cmd = "move"
    /\ \E err \in {"nil", "ErrFullSync"}, gone \in {{}, Target} :
          /\ calls' = Append(calls, SyncCall(<<>>, err))
          /\ IF err # "nil"
             THEN ret' = err /\ pc' = "done" /\ UNCHANGED store
             ELSE store' = FullSync(store, gone) /\ pc' = "lookup" /\ UNCHANGED ret
    /\ UNCHANGED <<cmd, args, flags, stdin, staged, out>>
    /\ UNCHANGED <<loaded, timeVars>>

\* itemMoveCmd: the item resolved again after the sync, and the report
itemMoveCmd_Resolve ==
    /\ pc = "lookup" /\ cmd = "move"
    /\ LET syncedItem == Resolve(store, NewID(args[1]).id)
       IN  /\ calls' = Append(calls, Call("Item.Resolve", NewID(args[1]).id, Found(syncedItem)))
           /\ IF syncedItem = {}
              THEN ret' = "Failed to move this item. It may be failed to sync." /\ UNCHANGED out
              ELSE /\ out' = out \o <<"Successful move item.", ItemTableString(CHOOSE i \in syncedItem : TRUE)>>
                   /\ ret' = "nil"
    /\ pc' = "done"
    /\ UNCHANGED <<store, cmd, args, flags, stdin, staged>>
    /\ UNCHANGED <<loaded, timeVars>>

\* itemDeleteCmd is run: util.AutoCommit, the callback's checks, the prompt
itemDeleteCmd_Begin ==
    /\ pc = "idle"
    /\ \E a \in DeleteArgs, in \in Answers, clientOK \in BOOLEAN :
          LET r == itemDeleteCmd_Prepare(a, clientOK, in, store)
          IN  /\ cmd' = "delete" /\ args' = a /\ flags' = NoFlags /\ stdin' = in
              /\ pc' = r.pc /\ ret' = r.ret /\ staged' = r.staged
              /\ calls' = r.calls /\ out' = r.out
    /\ UNCHANGED store
    /\ UNCHANGED <<loaded, timeVars>>

\* itemDeleteCmd: client.Item.Delete, and the return when it fails
itemDeleteCmd_ItemDelete ==
    /\ pc = "mutate" /\ cmd = "delete"
    /\ \E err \in {"nil", "ErrItemDelete"} :
          /\ calls' = Append(calls, Call("Item.Delete", staged, err))
          /\ IF err # "nil"
             THEN ret' = itemDeleteCmd_Return(err) /\ pc' = "done" /\ UNCHANGED store
             ELSE store' = ItemDelete(store, staged) /\ pc' = "commit" /\ UNCHANGED ret
    /\ UNCHANGED <<cmd, args, flags, stdin, staged, out>>
    /\ UNCHANGED <<loaded, timeVars>>

\* util.AutoCommit after the callback returned nil: client.Commit
itemDeleteCmd_AutoCommit ==
    /\ pc = "commit" /\ cmd = "delete"
    /\ \E err \in {"nil", "ErrCommit"} :
          /\ calls' = Append(calls, Call("Commit", "", err))
          /\ IF err # "nil"
             THEN ret' = itemDeleteCmd_Return(err) /\ pc' = "done" /\ UNCHANGED store
             ELSE store' = Commit(store) /\ pc' = "sync" /\ UNCHANGED ret
    /\ UNCHANGED <<cmd, args, flags, stdin, staged, out>>
    /\ UNCHANGED <<loaded, timeVars>>

\* util.AutoCommit: client.FullSync, and itemDeleteCmd's report
itemDeleteCmd_Synced ==
    /\ pc = "sync" /\ cmd = "delete"
    /\ \E err \in {"nil", "ErrFullSync"} :
          /\ calls' = Append(calls, SyncCall(<<>>, err))
          /\ IF err # "nil"
             THEN ret' = itemDeleteCmd_Return(err) /\ UNCHANGED <<store, out>>
             ELSE /\ store' = FullSync(store, {})
                  /\ out' = Append(out, "Successful deleting of item(s).")
                  /\ ret' = "nil"
    /\ pc' = "done"
    /\ UNCHANGED <<cmd, args, flags, stdin, staged>>
    /\ UNCHANGED <<loaded, timeVars>>

Next ==
    \/ itemAddCmd_Begin
    \/ itemAddCmd_ItemAdd
    \/ itemAddCmd_Commit
    \/ itemAddCmd_FullSync
    \/ itemAddCmd_Retrieve
    \/ itemUpdateCmd_Begin
    \/ itemUpdateCmd_ItemUpdate
    \/ itemUpdateCmd_Commit
    \/ itemUpdateCmd_FullSync
    \/ itemUpdateCmd_Resolve
    \/ itemMoveCmd_Begin
    \/ itemMoveCmd_ItemMove
    \/ itemMoveCmd_Commit
    \/ itemMoveCmd_FullSync
    \/ itemMoveCmd_Resolve
    \/ itemDeleteCmd_Begin
    \/ itemDeleteCmd_ItemDelete
    \/ itemDeleteCmd_AutoCommit
    \/ itemDeleteCmd_Synced

Spec == Init /\ [][Next]_vars

(***************************************************************************)
(* Claims about the item commands                                          *)
(***************************************************************************)

Called(op) == \E i \in 1..Len(calls) : calls[i].op = op

Printed(line) == \E i \in 1..Len(out) : out[i] = line

Parses(text) == Len(text) > 0 /\ \A i \in 1..Len(text) : isDigit(text, i)

Failed == ret \notin {"none", "nil"}

Writes == {"Item.Add", "Item.Update", "Item.Move", "Item.Delete"}

Reads == {"Item.Resolve", "Project.FindOneByName", "Label.FindOneByName"}

SuccessLines ==
    {"Successful addition of an item.", "success to update the item",
     "Successful move item.", "Successful deleting of item(s)."}

\* the calls add, update and move make, in order
CallOrder(c) ==
    IF c = "add" THEN <<"Item.Add", "Commit", "FullSync", "Item.FindByContent">>
    ELSE IF c = "update" THEN <<"Item.Update", "Commit", "FullSync", "Item.Resolve">>
    ELSE <<"Item.Move", "Commit", "FullSync", "Item.Resolve">>

\* C1: in add, update and move, from the local mutation on the calls of one
\* invocation are a prefix of mutation, Commit, FullSync (with no extra
\* command), lookup, so each is made at most once and in this order; before
\* the mutation there are only lookups; a call is made only if the one before
\* it returned no error; an error ends the invocation and is what the handler
\* returns; and a success line is printed only after all four calls.
C1_CallOrder ==
    cmd \in {"add", "update", "move"} =>
        LET firsts == {i \in 1..Len(calls) : calls[i].op \in Writes}
            m      == IF firsts = {} THEN Len(calls) + 1
                      ELSE CHOOSE i \in firsts : \A j \in firsts : i <= j
            tail   == SubSeq(calls, m, Len(calls))
        IN  /\ \A i \in 1..(m - 1) : calls[i].op \in Reads
            /\ Len(tail) <= 4
            /\ \A k \in 1..Len(tail) :
                  /\ tail[k].op = CallOrder(cmd)[k]
                  /\ tail[k].extra = 0
                  /\ k < Len(tail) => tail[k].res = "nil"
                  /\ tail[k].res \notin {"nil", "found", "absent"}
                        => (pc = "done" /\ ret = tail[k].res)
            /\ (\E line \in SuccessLines : Printed(line))
                  => (Len(tail) = 4 /\ tail[4].res = "found" /\ ret = "nil")
            /\ Failed => \A line \in SuccessLines : ~Printed(line)

\* a move ran through all four calls and reported success
C1_Witness ==
    /\ cmd = "move" /\ pc = "done" /\ ret = "nil"
    /\ Len(calls) = 5
    /\ calls[2].op = "Item.Move" /\ calls[5].op = "Item.Resolve"
    /\ Printed("Successful move item.")

\* the item identifier argument is missing, does not parse, or resolves to
\* no item of the store the command found
NoSuchItem ==
    \/ Len(args) < 1
    \/ ~Parses(args[1])
    \/ \A i \in loaded.items : i.id # args[1]

\* C5: in update, move and delete, when the item identifier argument is
\* missing, does not parse or does not resolve, the command returns an error
\* and calls none of Item.Update, Item.Move, Item.Delete, Commit, FullSync.
C5_NoSuchItemNoCall ==
    (cmd \in {"update", "move", "delete"} /\ NoSuchItem)
    => /\ pc = "done"
       /\ Failed
       /\ \A op \in Writes \cup {"Commit", "FullSync"} : ~Called(op)

\* a move of an identifier that parses and names no item
C5_Witness ==
    /\ cmd = "move" /\ args = <<"9">> /\ loaded.items # {}
    /\ Called("Item.Resolve")
    /\ pc = "done" /\ ret = "No such item id: 9"

\* the first line typed is exactly y
AnsweredYes == Len(stdin) >= 2 /\ Char(stdin, 1) = "y" /\ Char(stdin, 2) = "\n"

PromptLine == "are you sure to delete above item(s)? (y/[n]): "

\* C6: delete calls Item.Delete only after the answer "y\n" was read; after
\* any other answer, or a read that failed, Item.Delete is not called and the
\* command returns nil without the line of a successful deletion, the store
\* as it was.
C6_DeleteOnlyOnYes ==
    cmd = "delete" =>
        /\ Called("Item.Delete") => AnsweredYes
        /\ (Printed(PromptLine) /\ ~AnsweredYes)
              => /\ pc = "done" /\ ret = "nil"
                 /\ ~Called("Item.Delete")
                 /\ ~Printed("Successful deleting of item(s).")
                 /\ store = loaded

\* the prompt was answered y without a newline: the read failed
C6_Witness ==
    /\ cmd = "delete" /\ stdin = "y" /\ Printed(PromptLine)
    /\ pc = "done" /\ ret = "nil" /\ ~Called("Item.Delete")

SyncedOK == \E i \in 1..Len(calls) : calls[i].op = "FullSync" /\ calls[i].res = "nil"

\* the entity the command wrote is not in the store
EntityMissing ==
    IF cmd = "add" THEN \A i \in store.items : i.content # Join(args, " ")
    ELSE \A i \in store.items : i.id # args[1]

FailedToSync ==
    IF cmd = "add" THEN "Failed to add this item. It may be failed to sync."
    ELSE IF cmd = "update" THEN "failed to add this item. it may be failed to sync"
    ELSE "Failed to move this item. It may be failed to sync."

\* C7: in add, update and move, when Commit and FullSync succeeded and the
\* entity is then not in the store, the command returns its failed-to-sync
\* error and prints no success line.
C7_MissingAfterSync ==
    (cmd \in {"add", "update", "move"} /\ pc = "done" /\ SyncedOK /\ EntityMissing)
    => (ret = FailedToSync /\ \A line \in SuccessLines : ~Printed(line))

\* an update whose item the server answered is gone
C7_Witness ==
    /\ cmd = "update" /\ pc = "done" /\ SyncedOK
    /\ args[1] \in {i.id : i \in loaded.items}
    /\ EntityMissing
    /\ ret = "failed to add this item. it may be failed to sync"

\* the text of a flag, the empty default when the user gave none
MoveFlagText(name) == IF flags[name].set THEN flags[name].val ELSE ""

\* C8: move calls Item.Move only when the values of both the parent and the
\* project flag parse as identifiers; when either does not, the empty default
\* included, the command returns an error (the invalid-id error, once the
\* item was resolved) and calls none of Item.Move, Commit, FullSync.
C8_MoveNeedsBothFlags ==
    cmd = "move" =>
        LET both == Parses(MoveFlagText("parent")) /\ Parses(MoveFlagText("project"))
        IN  /\ Called("Item.Move") => both
            /\ ~both =>
                 /\ pc = "done" /\ Failed
                 /\ \A op \in {"Item.Move", "Commit", "FullSync"} : ~Called(op)
                 /\ (\E i \in 1..Len(calls) :
                        calls[i].op = "Item.Resolve" /\ calls[i].res = "found")
                    => ret = IF ~Parses(MoveFlagText("parent"))
                             THEN "invalid parent id: " \o MoveFlagText("parent")
                             ELSE "invalid project id: " \o MoveFlagText("project")

\* a move that names only a project
C8_Witness ==
    /\ cmd = "move" /\ args = <<"1">>
    /\ flags.project = Given("8") /\ ~flags.parent.set
    /\ Called("Item.Resolve")
    /\ pc = "done" /\ ret = "invalid parent id: "

\* the identifiers a label flag names in a store: the parts that parse, and
\* the identifiers of the labels called as a part
NamedLabels(text, st) ==
    LET parts == IF Len(text) > 0 THEN Split(text, ",") ELSE <<>>
    IN  {parts[i] : i \in {j \in 1..Len(parts) : Parses(parts[j])}}
        \cup {l.id : l \in {x \in st.labels : \E j \in 1..Len(parts) : parts[j] = x.name}}

\* labels is before, followed by exactly the identifiers the flag names
LabelsAppended(before, labels, text, st) ==
    /\ Len(labels) >= Len(before)
    /\ SubSeq(labels, 1, Len(before)) = before
    /\ {labels[i] : i \in (Len(before) + 1)..Len(labels)} = NamedLabels(text, st)

\* the handler has built its item
Built == pc \in {"mutate", "commit", "sync", "lookup"} \/ \E op \in Writes : Called(op)

\* C9: the item update passes to Item.Update has the resolved item's content
\* when no new content is given, its due string when the due flag is empty,
\* its labels followed by those the label flag names, and as priority the
\* value of the priority flag, 1 when the user gave none.
C9_UpdateFrame ==
    (cmd = "update" /\ Built) =>
        LET before == CHOOSE i \in loaded.items : i.id = args[1]
        IN  /\ Len(args) = 1 => staged.content = before.content
            /\ (~flags.due.set \/ flags.due.val = "") => staged.due = before.due
            /\ LabelsAppended(before.labels, staged.labels,
                              IF flags.label.set THEN flags.label.val ELSE "", loaded)
            /\ staged.priority = IF flags.priority.set THEN DigitsVal(flags.priority.val)
                                 ELSE 1
            /\ staged.id = before.id
            /\ staged.project = before.project /\ staged.parent = before.parent
            /\ \A i \in 1..Len(calls) :
                  calls[i].op = "Item.Update" => calls[i].arg = staged.id

\* an update with no flag and no new content: all kept but the priority
C9_Witness ==
    /\ cmd = "update" /\ args = <<"1">> /\ flags = NoFlags
    /\ Called("Item.Update")
    /\ \E i \in loaded.items : i.id = "1" /\ i.priority = 3 /\ i.content = staged.content
    /\ staged.priority = 1

\* C10: the item add passes to Item.Add has as project the project flag's
\* text when it parses, else the identifier of the project of that name, else
\* none; its labels are those the label flag names (as are the labels update
\* appends); a reference that resolves to nothing is passed over, and the
\* only error add returns before Item.Add is that of NewClient.
C10_UnresolvedSkipped ==
    /\ (cmd = "add" /\ Built) =>
          LET p == IF flags.project.set THEN flags.project.val ELSE "inbox"
              named == {x \in loaded.projects : x.name = p}
          IN  /\ staged.project = IF Parses(p) THEN p
                                  ELSE IF named # {} THEN (CHOOSE x \in named : TRUE).id
                                  ELSE ""
              /\ LabelsAppended(<<>>, staged.labels,
                                IF flags.label.set THEN flags.label.val ELSE "", loaded)
              /\ \A i \in 1..Len(calls) :
                    calls[i].op = "Item.Add" => calls[i].arg = staged.content
    /\ (cmd = "add" /\ ~Built) => (pc = "done" /\ ret = "ErrNewClient")
    /\ (cmd = "update" /\ Built) =>
          LabelsAppended((CHOOSE i \in loaded.items : i.id = args[1]).labels,
                         staged.labels,
                         IF flags.label.set THEN flags.label.val ELSE "", loaded)

\* an add naming a project and a label that do not exist went through
C10_Witness ==
    /\ cmd = "add" /\ flags.project = Given("nowhere")
    /\ flags.label = Given("errand,nolabel,6")
    /\ pc = "done" /\ ret = "nil"
    /\ Printed("Successful addition of an item.")
    /\ staged.project = "" /\ staged.labels = <<"6", "6">>

====
